---- MODULE Spec2Model ----
(***************************************************************************)
(* Model of src/src/App.vue, the prayer-time component: the refs of its    *)
(* <script setup>, the asynchronous mount chain, fetchPrayerTimes, the     *)
(* one-second interval callback, the computed values nextPrayer,           *)
(* previousPrayer, timeRemaining, timePassed, shouldShowNextPrayer, and    *)
(* checkNotification.                                                      *)
(*                                                                         *)
(* Time is in milliseconds.  Day 0 is 1 December; a Date is a JavaScript   *)
(* number (its time value) that may be NaN (an Invalid Date).  The local   *)
(* time zone has no daylight-saving change in the modelled period.         *)
(***************************************************************************)
EXTENDS Integers, Sequences, FiniteSets, TLC

VARIABLES
  prayerData,        \* ref<PrayerResponse | null>: NULL or the timings held
  currentTime,       \* ref(new Date()): the snapshot the computeds read
  loading,           \* ref(true)
  error,             \* ref<string>("")
  notificationShown, \* ref<string>(""): <<>> or the last key <<name, suffix>>
  isManualToggle,    \* ref(false)
  showNextPrayer,    \* ref(true)
  timeInterval,      \* let timeInterval: 0 models null, else the interval id
  timers,            \* the interval ids the browser still fires
  mountPc,           \* position of the async onMounted callback
  fetchPc,           \* position of the fetchPrayerTimes call in flight
  unmounted,         \* onUnmounted has run
  hasApiUrl,         \* import.meta.env.VITE_PRAYER_API_URL is set in the build
  fired,             \* history: showNotification calls per key on the current day
  ticked,            \* history: the threshold windows ticks fell in on that day
  ticks,             \* history: interval callbacks run so far
  lastOp             \* history: the last operation that ran

vars == <<prayerData, currentTime, loading, error, notificationShown,
          isManualToggle, showNextPrayer, timeInterval, timers, mountPc,
          fetchPc, unmounted, hasApiUrl, fired, ticked, ticks, lastOp>>

----------------------------------------------------------------------------
(* Bounds of the model *)

MaxTicks == 4

----------------------------------------------------------------------------
(* JavaScript numbers and Dates *)

NULL == [null |-> TRUE]

TickMs == 1000
MsPerMinute == 1000 * 60
MsPerHour == 1000 * 60 * 60
MsPerDay == 24 * MsPerHour

(* A JavaScript number holds these time values exactly; a 32-bit integer   *)
(* does not, so a number is kept as whole days plus milliseconds,          *)
(* d * MsPerDay + ms with 0 <= ms < MsPerDay, or is NaN.                   *)
Num(v) == [nan |-> FALSE, d |-> v \div MsPerDay, ms |-> v % MsPerDay]
NaN == [nan |-> TRUE, d |-> 0, ms |-> 0]

Gt(a, b) == ~a.nan /\ ~b.nan /\ (a.d > b.d \/ (a.d = b.d /\ a.ms > b.ms))
Le(a, b) == ~a.nan /\ ~b.nan /\ (a.d < b.d \/ (a.d = b.d /\ a.ms <= b.ms))
Lt(a, b) == ~a.nan /\ ~b.nan /\ (a.d < b.d \/ (a.d = b.d /\ a.ms < b.ms))
Add(a, b) ==
  IF a.nan \/ b.nan THEN NaN
  ELSE [nan |-> FALSE, d |-> a.d + b.d + ((a.ms + b.ms) \div MsPerDay),
        ms |-> (a.ms + b.ms) % MsPerDay]
Sub(a, b) ==
  IF a.nan \/ b.nan THEN NaN
  ELSE [nan |-> FALSE, d |-> a.d - b.d + ((a.ms - b.ms) \div MsPerDay),
        ms |-> (a.ms - b.ms) % MsPerDay]
(* Math.floor(a / k) and a % k of a non-negative a, for k a divisor of MsPerDay *)
FloorDiv(a, k) ==
  IF a.nan THEN NaN ELSE Num(a.d * (MsPerDay \div k) + (a.ms \div k))
Mod(a, k) == IF a.nan THEN NaN ELSE Num(a.ms % k)

(* The calendar Date.setDate and Date.getDate work in: December, January,  *)
(* February, March of a common year; day 0 is 1 December.                  *)
MonthLengths == <<31, 31, 28, 31>>

RECURSIVE DaysBefore(_)
DaysBefore(k) == IF k = 0 THEN 0 ELSE DaysBefore(k - 1) + MonthLengths[k]

MonthStarts == {DaysBefore(k) : k \in 0..(Len(MonthLengths) - 1)}

MonthStart(day) ==
  CHOOSE s \in MonthStarts : s <= day /\ \A r \in MonthStarts : r <= day => r <= s
getDate(date) == date.d - MonthStart(date.d) + 1

(* date.setDate(n): day n of date's month, time of day kept; n past the    *)
(* month's end runs over into the next month, n = 0 is the last day of the *)
(* month before.                                                           *)
setDate(date, n) ==
  IF date.nan THEN NaN
  ELSE [nan |-> FALSE, d |-> MonthStart(date.d) + n - 1, ms |-> date.ms]

(* setHours(hours, minutes, 0, 0) on a date of day `day` *)
setHours(day, hours, minutes) ==
  IF hours.nan \/ minutes.nan THEN NaN
  ELSE Add([nan |-> FALSE, d |-> day, ms |-> 0],
           Num((hours.d * MsPerDay + hours.ms) * MsPerHour
               + (minutes.d * MsPerDay + minutes.ms) * MsPerMinute))

At(day, h, m, s, ms) ==
  [nan |-> FALSE, d |-> day,
   ms |-> h * MsPerHour + m * MsPerMinute + s * 1000 + ms]

----------------------------------------------------------------------------
(* The schedule *)

prayerOrder == <<"Fajr", "Sunrise", "Duhur", "Asr", "Maqhrib", "Isha">>

(* A time string "HH:MM" is modelled by what split(":").map(Number) makes  *)
(* of it: two numbers, NaN for a part that is not numeric.                 *)
TimeStr(h, m) == <<Num(h), Num(m)>>
BadTimeStr == <<NaN, NaN>>

(* The responses the API may give.  ScheduleA is the day's schedule,       *)
(* ScheduleB the same day with Maqhrib three minutes later, ScheduleC has  *)
(* "--:--" for Asr (not numeric) and "24:30" for Isha (hours out of range). *)
ScheduleA ==
  [Fajr |-> TimeStr(5, 0), Sunrise |-> TimeStr(6, 20), Duhur |-> TimeStr(12, 15),
   Asr |-> TimeStr(15, 45), Maqhrib |-> TimeStr(18, 30), Isha |-> TimeStr(20, 0)]
ScheduleB == [ScheduleA EXCEPT !.Maqhrib = TimeStr(18, 33)]
ScheduleC == [ScheduleA EXCEPT !.Asr = BadTimeStr, !.Isha = TimeStr(24, 30)]

Responses == {ScheduleA, ScheduleB, ScheduleC}

(* A part of a time string is in range: hours 0-23, minutes 0-59 *)
WellFormed(timeStr) ==
  /\ ~timeStr[1].nan /\ Le(Num(0), timeStr[1]) /\ Le(timeStr[1], Num(23))
  /\ ~timeStr[2].nan /\ Le(Num(0), timeStr[2]) /\ Le(timeStr[2], Num(59))

(* prayerTimeToDate(timeStr): new Date() with the hours and minutes set.   *)
(* The computeds are evaluated in the interval callback right after the    *)
(* snapshot is taken, so `today`, the instant new Date() returns here, is  *)
(* the snapshot: only its calendar day is used.                            *)
prayerTimeToDate(timeStr, today) ==
  LET hours == timeStr[1]
      minutes == timeStr[2]
  IN setHours(today.d, hours, minutes)

----------------------------------------------------------------------------
(* nextPrayer *)

(* Mutant: `>=` for `>` in the scan of nextPrayer *)
isUpcomingOrNow(prayerTime, now) == Le(now, prayerTime)

(* Mutant: a prayer stays the upcoming one for a second after its instant *)
isUpcomingOrJustPassed(prayerTime, now) == Gt(Add(prayerTime, Num(TickMs)), now)

isUpcoming(prayerTime, now) == Gt(prayerTime, now)

RECURSIVE NextScan(_, _, _)
NextScan(data, now, i) ==
  IF i > Len(prayerOrder) THEN
    LET tomorrow == setDate(now, getDate(now) + 1)
        fajrTime == setDate(prayerTimeToDate(data.Fajr, now), getDate(tomorrow))
    IN [name |-> "Fajr", time |-> fajrTime, timeString |-> data.Fajr]
  ELSE
    LET prayer == prayerOrder[i]
        prayerTime == prayerTimeToDate(data[prayer], now)
    IN IF isUpcoming(prayerTime, now)
       THEN [name |-> prayer, time |-> prayerTime, timeString |-> data[prayer]]
       ELSE NextScan(data, now, i + 1)

findNext(data, now) == NextScan(data, now, 1)

(* The computed values below are given as functions of the refs they read, *)
(* (data, now), and then at the current state.                             *)
(* Mutant: no null guard, a built-in schedule stands in until one is fetched *)
nextPrayerAtDefault(data, now) ==
  findNext(IF data = NULL THEN ScheduleA ELSE data, now)

nextPrayerAt(data, now) == IF data = NULL THEN NULL ELSE findNext(data, now)

nextPrayer == nextPrayerAt(prayerData, currentTime)

----------------------------------------------------------------------------
(* previousPrayer *)

(* Mutant: `<` for `<=` in the scan of previousPrayer *)
hasPassedStrictly(prayerTime, now) == Lt(prayerTime, now)

hasPassed(prayerTime, now) == Le(prayerTime, now)

RECURSIVE PreviousScan(_, _, _, _)
PreviousScan(data, now, i, lastPrayer) ==
  IF i > Len(prayerOrder) THEN lastPrayer
  ELSE
    LET prayer == prayerOrder[i]
        prayerTime == prayerTimeToDate(data[prayer], now)
    IN IF hasPassed(prayerTime, now)
       THEN PreviousScan(data, now, i + 1,
              [name |-> prayer, time |-> prayerTime, timeString |-> data[prayer]])
       ELSE lastPrayer

findPrevious(data, now) ==
  LET lastPrayer == PreviousScan(data, now, 1, NULL)
  IN IF lastPrayer = NULL THEN
       LET yesterday == setDate(now, getDate(now) - 1)
           ishaTime == setDate(prayerTimeToDate(data.Isha, now), getDate(yesterday))
       IN [name |-> "Isha", time |-> ishaTime, timeString |-> data.Isha]
     ELSE lastPrayer

(* Mutant: no null guard in previousPrayer, a built-in schedule stands in  *)
previousPrayerAtDefault(data, now) ==
  findPrevious(IF data = NULL THEN ScheduleA ELSE data, now)

previousPrayerAt(data, now) ==
  IF data = NULL THEN NULL ELSE findPrevious(data, now)

previousPrayer == previousPrayerAt(prayerData, currentTime)

----------------------------------------------------------------------------
(* timeRemaining, timePassed *)

(* Mutant: minutes without `diff % (1000 * 60 * 60)`, the whole minutes of diff *)
DurationTotalMinutes(diff) ==
  [hours |-> FloorDiv(diff, MsPerHour),
   minutes |-> FloorDiv(diff, MsPerMinute),
   seconds |-> FloorDiv(Mod(diff, MsPerMinute), 1000),
   totalMs |-> diff]

Duration(diff) ==
  [hours |-> FloorDiv(diff, MsPerHour),
   minutes |-> FloorDiv(Mod(diff, MsPerHour), MsPerMinute),
   seconds |-> FloorDiv(Mod(diff, MsPerMinute), 1000),
   totalMs |-> diff]

(* Mutant: `diff <= 0` for `diff < 0` in timeRemaining and timePassed *)
isNegativeOrZero(diff) == Le(diff, Num(0))

isNegative(diff) == Lt(diff, Num(0))

remainingUntil(target, now) ==
  LET diff == Sub(target, now)
  IN IF isNegative(diff) THEN NULL ELSE Duration(diff)

elapsedSince(target, now) ==
  LET diff == Sub(now, target)
  IN IF isNegative(diff) THEN NULL ELSE Duration(diff)

timeRemainingAt(data, now) ==
  LET next == nextPrayerAt(data, now)
  IN IF next = NULL THEN NULL ELSE remainingUntil(next.time, now)

timeRemaining == timeRemainingAt(prayerData, currentTime)

timePassedAt(data, now) ==
  LET previous == previousPrayerAt(data, now)
  IN IF previous = NULL THEN NULL ELSE elapsedSince(previous.time, now)

timePassed == timePassedAt(prayerData, currentTime)

----------------------------------------------------------------------------
(* shouldShowNextPrayer, activePrayer, activeTimeDisplay *)

thirtyFiveMinutesMs == 35 * 60 * 1000

(* Mutant: `>=` for `>` in the comparison with thirtyFiveMinutesMs *)
reachesThreshold(totalMs) == Le(Num(thirtyFiveMinutesMs), totalMs)

exceedsThreshold(totalMs) == Gt(totalMs, Num(thirtyFiveMinutesMs))

(* Mutant: no `if (isManualToggle.value)` branch, the elapsed-time rule    *)
(* always decides                                                          *)
shouldShowNextPrayerAuto(manual, show, data, now) ==
  LET passed == timePassedAt(data, now)
  IN IF passed = NULL THEN TRUE ELSE exceedsThreshold(passed.totalMs)

shouldShowNextPrayerAt(manual, show, data, now) ==
  LET passed == timePassedAt(data, now)
  IN IF manual THEN show
     ELSE IF passed = NULL THEN TRUE
     ELSE exceedsThreshold(passed.totalMs)

shouldShowNextPrayer ==
  shouldShowNextPrayerAt(isManualToggle, showNextPrayer, prayerData, currentTime)

activePrayer == IF shouldShowNextPrayer THEN nextPrayer ELSE previousPrayer

activeTimeDisplay == IF shouldShowNextPrayer THEN timeRemaining ELSE timePassed

----------------------------------------------------------------------------
(* checkNotification *)

(* Mutant: a first threshold of ten minutes *)
tenMinutesMs == 10 * 60 * 1000

fiveMinutesMs == 5 * 60 * 1000
oneMinuteMs == 1 * 60 * 1000

Suffixes == {"5min", "1min", "now"}
Keys == {<<prayerOrder[i], s>> : i \in 1..Len(prayerOrder), s \in Suffixes}

(* The key of the branch of checkNotification that the remaining time      *)
(* selects, <<>> when the function returns early or no branch is taken.    *)
notificationDue(data, now) ==
  LET remaining == timeRemainingAt(data, now)
      next == nextPrayerAt(data, now)
  IN
  IF remaining = NULL \/ next = NULL THEN <<>>
  ELSE
    LET prayerKey == next.name
        totalMs == remaining.totalMs
    IN IF Le(totalMs, Num(fiveMinutesMs)) /\ Gt(totalMs, Num(oneMinuteMs))
         THEN <<prayerKey, "5min">>
       ELSE IF Le(totalMs, Num(oneMinuteMs)) /\ Gt(totalMs, Num(0))
         THEN <<prayerKey, "1min">>
       ELSE IF Le(totalMs, Num(0))
         THEN <<prayerKey, "now">>
       ELSE <<>>

(* The threshold windows of today's prayers that the instant `now` lies in: *)
(* of prayer p at instant T, "5min" when 1 min < T - now <= 5 min, "1min"   *)
(* when 0 < T - now <= 1 min, "now" when T <= now.                          *)
WindowsAt(data, now) ==
  IF data = NULL THEN {}
  ELSE LET remaining == [i \in 1..Len(prayerOrder) |->
                            Sub(prayerTimeToDate(data[prayerOrder[i]], now), now)]
           inWindow(i, s) ==
             CASE s = "5min" -> /\ Le(remaining[i], Num(fiveMinutesMs))
                                /\ Gt(remaining[i], Num(oneMinuteMs))
               [] s = "1min" -> /\ Le(remaining[i], Num(oneMinuteMs))
                                /\ Gt(remaining[i], Num(0))
               [] s = "now" -> Le(remaining[i], Num(0))
       IN {k \in Keys : \E i \in 1..Len(prayerOrder) :
                          k[1] = prayerOrder[i] /\ inWindow(i, k[2])}

(* Mutant: no comparison with notificationShown, a branch always shows *)
mustShowAlways(key, shown) == key # <<>>

(* A branch shows its notification unless its key is the one shown last *)
mustShow(key, shown) == key # <<>> /\ shown # key

----------------------------------------------------------------------------
(* The state after <script setup> has run *)

Jan15 == 31 + 14
Jan31 == 31 + 30
Feb1 == 31 + 31

(* The instants at which the component may be set up *)
StartTimes ==
  { At(Jan15, 18, 25, 30, 0),   \* before Maqhrib, long after Asr
    At(Jan15, 15, 44, 59, 0),   \* a second before Asr
    At(Jan15, 23, 59, 30, 0),   \* before midnight
    At(Jan31, 19, 59, 0, 0),    \* before Isha on the last day of a month
    At(Feb1, 4, 57, 30, 0) }    \* before Fajr on the first day of a month

(* The distances between two runs of the interval callback: the nominal    *)
(* second, and longer gaps when the timer is throttled or the machine slept *)
Steps == {TickMs, 120 * TickMs}

NoUrlMessage == "API URL not found in environment variables"
FailureMessages == {"HTTP error! status: 500", "Failed to fetch prayer times"}

NoneFired == [k \in Keys |-> 0]

Init ==
  /\ prayerData = NULL
  /\ currentTime \in StartTimes
  /\ loading = TRUE
  /\ error = ""
  /\ notificationShown = <<>>
  /\ isManualToggle = FALSE
  /\ showNextPrayer = TRUE
  /\ timeInterval = 0
  /\ timers = {}
  /\ mountPc = "setup"
  /\ fetchPc = "idle"
  /\ unmounted = FALSE
  /\ hasApiUrl \in BOOLEAN
  /\ fired = NoneFired
  /\ ticked = {}
  /\ ticks = 0
  /\ lastOp = "setup"

----------------------------------------------------------------------------
(* Operations *)

(* startTimeUpdates(): setInterval returns a fresh positive id *)
startTimeUpdates ==
  /\ timeInterval' = 1
  /\ timers' = timers \cup {1}

(* onMounted after `await fetchPrayerTimes()`: requestNotificationPermission *)
(* either waits for the user's answer to the prompt or returns at once, and *)
(* then startTimeUpdates runs.                                              *)
ContinueMount(prompt) ==
  IF prompt
  THEN mountPc' = "permission" /\ UNCHANGED <<timeInterval, timers>>
  ELSE mountPc' = "done" /\ startTimeUpdates

(* fetchPrayerTimes() up to its first await; without an API URL it throws,  *)
(* catches and returns before awaiting anything.                           *)
FetchBegin ==
  IF hasApiUrl
  THEN loading' = TRUE /\ error' = "" /\ fetchPc' = "inflight"
  ELSE loading' = FALSE /\ error' = NoUrlMessage /\ fetchPc' = "idle"

(* onMounted(async () => { await enable(); ... *)
OnMounted ==
  /\ mountPc = "setup"
  /\ mountPc' = "enable"
  /\ lastOp' = "mounted"
  /\ UNCHANGED <<prayerData, currentTime, loading, error, notificationShown,
                 isManualToggle, showNextPrayer, timeInterval, timers, fetchPc,
                 unmounted, hasApiUrl, fired, ticked, ticks>>

(* enable() resolves: fetchPrayerTimes() is called *)
EnableResolved ==
  /\ mountPc = "enable"
  /\ FetchBegin
  /\ IF hasApiUrl
     THEN mountPc' = "fetch" /\ UNCHANGED <<timeInterval, timers>>
     ELSE \E prompt \in BOOLEAN : ContinueMount(prompt)
  /\ lastOp' = "enableResolved"
  /\ UNCHANGED <<prayerData, currentTime, notificationShown, isManualToggle,
                 showNextPrayer, unmounted, hasApiUrl, fired, ticked, ticks>>

(* enable() rejects: the rest of the callback never runs *)
EnableRejected ==
  /\ mountPc = "enable"
  /\ mountPc' = "rejected"
  /\ lastOp' = "enableRejected"
  /\ UNCHANGED <<prayerData, currentTime, loading, error, notificationShown,
                 isManualToggle, showNextPrayer, timeInterval, timers, fetchPc,
                 unmounted, hasApiUrl, fired, ticked, ticks>>

(* The try block runs to its end: prayerData.value = data *)
FetchSucceeded(data) ==
  /\ prayerData' = data
  /\ UNCHANGED error
  /\ lastOp' = "fetchSettled"

(* Mutant: the catch block also drops the held schedule *)
FetchFailedDropsSchedule(msg) ==
  /\ error' = msg
  /\ prayerData' = NULL
  /\ lastOp' = "fetchFailed"

(* The catch block: error.value = the thrown error's message *)
FetchFailed(msg) ==
  /\ error' = msg
  /\ UNCHANGED prayerData
  /\ lastOp' = "fetchFailed"

(* The awaited request and response.json() of fetchPrayerTimes settle: with *)
(* the data, or with a thrown error (transport, HTTP status, bad JSON).  The *)
(* two awaits change no state between them and are one step here.          *)
FetchSettled ==
  /\ fetchPc = "inflight"
  /\ fetchPc' = "idle"
  /\ loading' = FALSE
  /\ \/ \E data \in Responses : FetchSucceeded(data)
     \/ \E msg \in FailureMessages : FetchFailed(msg)
  /\ IF mountPc = "fetch"
     THEN \E prompt \in BOOLEAN : ContinueMount(prompt)
     ELSE UNCHANGED <<mountPc, timeInterval, timers>>
  /\ UNCHANGED <<currentTime, notificationShown, isManualToggle, showNextPrayer,
                 unmounted, hasApiUrl, fired, ticked, ticks>>

(* Notification.requestPermission() settles: startTimeUpdates() *)
PermissionSettled ==
  /\ mountPc = "permission"
  /\ mountPc' = "done"
  /\ startTimeUpdates
  /\ lastOp' = "permissionSettled"
  /\ UNCHANGED <<prayerData, currentTime, loading, error, notificationShown,
                 isManualToggle, showNextPrayer, fetchPc, unmounted, hasApiUrl,
                 fired, ticked, ticks>>

(* The refresh button (disabled while loading) or the Retry button *)
Refresh ==
  /\ mountPc # "setup"
  /\ ~unmounted
  /\ ~loading
  /\ FetchBegin
  /\ lastOp' = "refresh"
  /\ UNCHANGED <<prayerData, currentTime, notificationShown, isManualToggle,
                 showNextPrayer, timeInterval, timers, mountPc, unmounted,
                 hasApiUrl, fired, ticked, ticks>>

(* A click on the prayer name, which the template renders only with the    *)
(* prayer content: togglePrayerMode()                                      *)
togglePrayerMode ==
  /\ isManualToggle' = TRUE
  /\ showNextPrayer' = ~showNextPrayer

Toggle ==
  /\ mountPc # "setup"
  /\ ~unmounted
  /\ ~loading /\ error = "" /\ prayerData # NULL /\ activePrayer # NULL
  /\ togglePrayerMode
  /\ lastOp' = "toggle"
  /\ UNCHANGED <<prayerData, currentTime, loading, error, notificationShown,
                 timeInterval, timers, mountPc, fetchPc, unmounted, hasApiUrl,
                 fired, ticked, ticks>>

(* checkNotification(), reading the computeds of the new snapshot `now`;    *)
(* `counts` is the history of the day `now` lies in                        *)
checkNotification(now, counts) ==
  LET key == notificationDue(prayerData, now)
  IN IF mustShow(key, notificationShown)
     THEN /\ notificationShown' = key
          /\ fired' = [counts EXCEPT ![key] = @ + 1]
     ELSE /\ UNCHANGED notificationShown
          /\ fired' = counts

(* The setInterval callback: currentTime.value = new Date(); checkNotification() *)
Tick(step) ==
  /\ timers # {}
  /\ ticks < MaxTicks
  /\ ticks' = ticks + 1
  /\ LET now == Add(currentTime, Num(step))
         sameDay == now.d = currentTime.d
     IN /\ currentTime' = now
        /\ checkNotification(now, IF sameDay THEN fired ELSE NoneFired)
        /\ ticked' = (IF sameDay THEN ticked ELSE {}) \cup WindowsAt(prayerData, now)
  /\ lastOp' = "tick"
  /\ UNCHANGED <<prayerData, loading, error, isManualToggle, showNextPrayer, timeInterval,
                 timers, mountPc, fetchPc, unmounted, hasApiUrl>>

(* onUnmounted: if (timeInterval) clearInterval(timeInterval) *)
clearsInterval == timeInterval # 0

Unmount ==
  /\ mountPc # "setup"
  /\ ~unmounted
  /\ unmounted' = TRUE
  /\ timers' = IF clearsInterval THEN timers \ {timeInterval} ELSE timers
  /\ lastOp' = "unmount"
  /\ UNCHANGED <<prayerData, currentTime, loading, error, notificationShown,
                 isManualToggle, showNextPrayer, timeInterval, mountPc, fetchPc,
                 hasApiUrl, fired, ticked, ticks>>

Next ==
  \/ OnMounted
  \/ EnableResolved
  \/ EnableRejected
  \/ FetchSettled
  \/ PermissionSettled
  \/ Refresh
  \/ Toggle
  \/ \E step \in Steps : Tick(step)
  \/ Unmount

Spec == Init /\ [][Next]_vars

(* The event loop runs the mount callback and resumes it whenever an       *)
(* awaited promise settles, and every awaited promise does settle: enable() *)
(* one way or the other, the request of fetchPrayerTimes, the permission   *)
(* prompt.  Clicks, unmount and the timer's callbacks are not forced.      *)
Fairness ==
  /\ WF_vars(OnMounted)
  /\ WF_vars(EnableResolved \/ EnableRejected)
  /\ WF_vars(FetchSettled)
  /\ WF_vars(PermissionSettled)

SpecLive == Spec /\ Fairness

----------------------------------------------------------------------------
(* The computed values over a whole day.  The component has been set up    *)
(* and mounted, a schedule has been fetched and the interval started, at   *)
(* any instant one second, one millisecond short of a second or one        *)
(* millisecond before a multiple of five minutes of a mid-month day, the   *)
(* last day of a month or the first day of a month; the interval callback  *)
(* then runs every second.                                                 *)

SweepDays == {Jan15, Jan31, Feb1}
SweepTimes ==
  {Add(At(day, 0, 5 * k, 0, 0), Num(0 - before)) :
     day \in SweepDays, k \in 0..((24 * 60) \div 5 - 1),
     before \in {1, TickMs - 1, TickMs}}

InitDay ==
  /\ prayerData \in Responses
  /\ currentTime \in SweepTimes
  /\ loading = FALSE
  /\ error = ""
  /\ notificationShown = <<>>
  /\ isManualToggle = FALSE
  /\ showNextPrayer = TRUE
  /\ timeInterval = 1
  /\ timers = {1}
  /\ mountPc = "done"
  /\ fetchPc = "idle"
  /\ unmounted = FALSE
  /\ hasApiUrl = TRUE
  /\ fired = NoneFired
  /\ ticked = {}
  /\ ticks = 0
  /\ lastOp = "fetchSettled"

NextDay == Tick(TickMs)

SpecDay == InitDay /\ [][NextDay]_vars

----------------------------------------------------------------------------
(* Properties *)

PrayerIndexes == 1..Len(prayerOrder)

(* Today's instants of the prayers of the held schedule, in prayerOrder *)
TodayInstants ==
  [i \in PrayerIndexes |-> prayerTimeToDate(prayerData[prayerOrder[i]], currentTime)]

Min(S) == CHOOSE x \in S : \A y \in S : x <= y

(* C1: when ticks have fallen in the 5-minute window, in the 1-minute      *)
(* window and at or after the instant of one prayer, exactly three         *)
(* notifications have been emitted for it: one with each of the keys       *)
(* <name>-5min, <name>-1min and <name>-now.                                *)
C1_ThreeNotificationsPerPrayer ==
  \A i \in PrayerIndexes :
    LET p == prayerOrder[i]
    IN {<<p, "5min">>, <<p, "1min">>, <<p, "now">>} \subseteq ticked
       => /\ fired[<<p, "5min">>] = 1
          /\ fired[<<p, "1min">>] = 1
          /\ fired[<<p, "now">>] = 1

(* C2: within one calendar day at most one notification is emitted for     *)
(* each (prayer name, threshold) pair, whatever ticks, toggles and         *)
(* refreshes happen.                                                       *)
C2_AtMostOncePerKeyPerDay == \A k \in Keys : fired[k] <= 1

(* C3: once unmount has been requested no step changes the current-time    *)
(* snapshot or the last-fired key (no tick runs).                          *)
C3_NoMutationAfterUnmount ==
  [][unmounted => (currentTime' = currentTime
                   /\ notificationShown' = notificationShown)]_vars

(* C4: with a schedule held, the next reference lies strictly after now    *)
(* and the previous reference at or before now.                            *)
C4_ReferencesBracketNow ==
  prayerData # NULL =>
    /\ Gt(nextPrayer.time, currentTime)
    /\ Le(previousPrayer.time, currentTime)

(* C5: with a schedule held, nextPrayer is one reference: the first prayer *)
(* of prayerOrder whose instant today is strictly greater than now, with   *)
(* that instant and its time string, and Fajr when there is none.          *)
C5_FindNextFirstUpcoming ==
  prayerData # NULL =>
    LET next == nextPrayer
        today == TodayInstants
        upcoming == {i \in PrayerIndexes : Gt(today[i], currentTime)}
        first == Min(upcoming)
    IN /\ next # NULL
       /\ IF upcoming = {}
          THEN /\ next.name = "Fajr"
               /\ next.timeString = prayerData.Fajr
          ELSE /\ next.name = prayerOrder[first]
               /\ next.time = today[first]
               /\ next.timeString = prayerData[prayerOrder[first]]

(* C5 witness: a tick after today's last prayer, where Fajr is returned *)
C5_Witness ==
  /\ prayerData # NULL
  /\ lastOp = "tick"
  /\ LET today == TodayInstants
     IN \A i \in PrayerIndexes : ~Gt(today[i], currentTime)
  /\ nextPrayer.name = "Fajr"

(* C6: with a schedule held, previousPrayer is one reference: the scan of  *)
(* prayerOrder stops at the first prayer whose instant today is not at or  *)
(* before now (for an instant: exceeds now) and returns the prayer before  *)
(* it, the last one at or before now; it returns Isha when the scan stops  *)
(* at Fajr.                                                                *)
C6_FindPreviousLastPassed ==
  prayerData # NULL =>
    LET previous == previousPrayer
        today == TodayInstants
        notPassed == {i \in PrayerIndexes : ~Le(today[i], currentTime)}
        stop == IF notPassed = {} THEN Len(prayerOrder) + 1 ELSE Min(notPassed)
    IN /\ previous # NULL
       /\ IF stop = 1
          THEN /\ previous.name = "Isha"
               /\ previous.timeString = prayerData.Isha
          ELSE /\ previous.name = prayerOrder[stop - 1]
               /\ previous.time = today[stop - 1]
               /\ previous.timeString = prayerData[prayerOrder[stop - 1]]

(* C6 witness: a tick before today's Fajr, where Isha is returned *)
C6_Witness ==
  /\ prayerData # NULL
  /\ lastOp = "tick"
  /\ Lt(currentTime, TodayInstants[1])
  /\ previousPrayer.name = "Isha"

(* The instants a duration is taken from: today's valid prayer instants    *)
(* and the two resolved references.                                        *)
Targets ==
  LET today == TodayInstants
  IN {t \in {today[i] : i \in PrayerIndexes}
            \cup {nextPrayer.time, previousPrayer.time} : ~t.nan}

(* C7 as stated: for the same (target, now) exactly one of remainingUntil  *)
(* and elapsedSince is "not applicable".                                   *)
C7_ExactlyOneApplicable ==
  prayerData # NULL =>
    \A target \in Targets :
      (remainingUntil(target, currentTime) = NULL)
        # (elapsedSince(target, currentTime) = NULL)

(* C7 amended: remainingUntil is defined exactly when target >= now and    *)
(* elapsedSince exactly when target <= now; so one of them is always       *)
(* defined and both are exactly when target = now.                         *)
C7_ApplicableBySign ==
  prayerData # NULL =>
    \A target \in Targets :
      LET remaining == remainingUntil(target, currentTime) # NULL
          elapsed == elapsedSince(target, currentTime) # NULL
      IN /\ remaining <=> Le(currentTime, target)
         /\ elapsed <=> Le(target, currentTime)
         /\ (remaining /\ elapsed) <=> target = currentTime

(* C7 witness: a tick at the very instant of a prayer *)
C7_Witness ==
  /\ prayerData # NULL
  /\ lastOp = "tick"
  /\ currentTime \in Targets

(* C8 as stated: while a fetch is outstanding remaining and elapsed are    *)
(* "not applicable" and no step emits a notification.                      *)
C8_SuspendedWhileFetching ==
  [][fetchPc = "inflight" =>
       /\ timeRemaining = NULL
       /\ timePassed = NULL
       /\ notificationShown' = notificationShown]_vars

(* C8 amended: the same while a fetch is outstanding and no schedule has   *)
(* been fetched yet.                                                       *)
C8_SuspendedUntilFirstSchedule ==
  [][(fetchPc = "inflight" /\ prayerData = NULL) =>
       /\ timeRemaining = NULL
       /\ timePassed = NULL
       /\ notificationShown' = notificationShown]_vars

(* C8 witness: a tick has run while a fetch is outstanding and no schedule *)
(* is held.                                                                *)
C8_Witness ==
  /\ lastOp = "tick"
  /\ fetchPc = "inflight"
  /\ prayerData = NULL

(* C9: a schedule with a time string that is not HH:MM with hours 0-23 and *)
(* minutes 0-59 is never applied.                                          *)
C9_MalformedScheduleRejected ==
  prayerData # NULL =>
    \A i \in PrayerIndexes : WellFormed(prayerData[prayerOrder[i]])

(* C10: a toggle flips the shown mode: the mode shown after it is the      *)
(* opposite of the mode shown before it.                                   *)
C10_ToggleFlipsShownMode ==
  [][showNextPrayer' # showNextPrayer =>
       shouldShowNextPrayerAt(isManualToggle', showNextPrayer', prayerData',
                              currentTime') # shouldShowNextPrayer]_vars

C12_PinnedForever ==
  [][isManualToggle =>
       /\ isManualToggle'
       /\ (lastOp' # "toggle" =>
             shouldShowNextPrayerAt(isManualToggle', showNextPrayer',
                                    prayerData', currentTime')
               = shouldShowNextPrayer)]_vars

(* C12 witness: a tick has run with the selector pinned to the mode the    *)
(* elapsed-time rule would not select.                                     *)
C12_Witness ==
  /\ lastOp = "tick"
  /\ isManualToggle
  /\ shouldShowNextPrayerAt(FALSE, showNextPrayer, prayerData, currentTime)
       # shouldShowNextPrayer

(* The keys a step emits a notification for: those whose count of the day  *)
(* of the new snapshot has grown.                                          *)
Emitted ==
  LET before == IF currentTime'.d = currentTime.d THEN fired ELSE NoneFired
  IN {k \in Keys : fired'[k] # before[k]}

EmittedOnce ==
  LET before == IF currentTime'.d = currentTime.d THEN fired ELSE NoneFired
  IN \A k \in Emitted : fired'[k] = before[k] + 1

IsTick == lastOp' = "tick" /\ ticks' # ticks

(* C13: on every tick where a threshold key is computed, a notification is *)
(* emitted if and only if the key differs from the last-fired key, it is   *)
(* the notification of that key, and after the tick the last-fired key is  *)
(* the computed key; a tick emits at most one notification.                *)
C13_EmitIffKeyDiffers ==
  [][IsTick =>
       LET key == notificationDue(prayerData, currentTime')
       IN /\ Cardinality(Emitted) <= 1 /\ EmittedOnce
          /\ key # <<>> =>
               /\ (Emitted # {}) <=> (key # notificationShown)
               /\ Emitted \subseteq {key}
               /\ notificationShown' = key]_vars

(* C13 witness: two ticks or more have run, the last in a threshold window *)
(* whose key is the last-fired key, and one notification was emitted for   *)
(* it.                                                                     *)
C13_Witness ==
  /\ lastOp = "tick"
  /\ ticks >= 2
  /\ notificationShown # <<>>
  /\ notificationShown = notificationDue(prayerData, currentTime)
  /\ \A k \in Keys : fired[k] = IF k = notificationShown THEN 1 ELSE 0

(* C14: a tick at which the remaining time to the next prayer is above     *)
(* 300,000 ms emits no notification and leaves the last-fired key as it is. *)
C14_NothingAboveFiveMinutes ==
  [][IsTick =>
       LET remaining == timeRemainingAt(prayerData, currentTime')
       IN (remaining # NULL /\ Gt(remaining.totalMs, Num(300000))) =>
            /\ Emitted = {}
            /\ notificationShown' = notificationShown]_vars

(* C14 witness: a tick more than 300,000 ms before the next prayer, with a *)
(* last-fired key held from an earlier tick.                               *)
C14_Witness ==
  /\ lastOp = "tick"
  /\ notificationShown # <<>>
  /\ LET remaining == timeRemaining
     IN remaining # NULL /\ Gt(remaining.totalMs, Num(300000))

(* C15: while no schedule is held, nextPrayer, previousPrayer,             *)
(* timeRemaining and timePassed are all "not applicable" and a tick emits  *)
(* no notification and leaves the last-fired key; no step but unmount      *)
(* stops the interval, and with the step that brings a schedule both       *)
(* references are resolved again.                                          *)
C15_NoScheduleNoEvaluation ==
  [][/\ prayerData = NULL =>
          /\ nextPrayer = NULL /\ previousPrayer = NULL
          /\ timeRemaining = NULL /\ timePassed = NULL
          /\ IsTick => (Emitted = {} /\ notificationShown' = notificationShown)
          /\ lastOp' # "unmount" => timers \subseteq timers'
     /\ (prayerData = NULL /\ prayerData' # NULL) =>
          /\ nextPrayerAt(prayerData', currentTime') # NULL
          /\ previousPrayerAt(prayerData', currentTime') # NULL]_vars

(* C15 witness: the first fetch has failed and a tick has run with no      *)
(* schedule held.                                                          *)
C15_Witness ==
  /\ lastOp = "tick"
  /\ prayerData = NULL
  /\ fetchPc = "idle"
  /\ error # ""

(* The held schedule has HH:MM time strings in range *)
HeldWellFormed ==
  prayerData # NULL /\ \A i \in PrayerIndexes : WellFormed(prayerData[prayerOrder[i]])

(* C16: with a well-formed schedule held and now exactly at a prayer's     *)
(* instant, previousPrayer is that prayer, and nextPrayer is a different   *)
(* prayer later in prayerOrder at a later instant: for Isha, Fajr of the   *)
(* next calendar day.                                                      *)
C16_TieAtPrayerInstant ==
  HeldWellFormed =>
    LET today == TodayInstants
        next == nextPrayer
        previous == previousPrayer
    IN \A i \in PrayerIndexes :
         today[i] = currentTime =>
           /\ previous.name = prayerOrder[i]
           /\ previous.time = currentTime
           /\ next.name # prayerOrder[i]
           /\ Gt(next.time, currentTime)
           /\ IF i = Len(prayerOrder)
              THEN /\ next.name = "Fajr"
                   /\ next.time = [today[1] EXCEPT !.d = currentTime.d + 1]
              ELSE \E j \in (i + 1)..Len(prayerOrder) :
                     next.name = prayerOrder[j] /\ next.time = today[j]

(* The held schedule is valid: well-formed, with instants that do not      *)
(* decrease along prayerOrder.                                             *)
HeldValid ==
  /\ HeldWellFormed
  /\ LET today == TodayInstants
     IN \A i, j \in PrayerIndexes : i < j => Le(today[i], today[j])

(* C17: with a valid schedule held, nextPrayer and previousPrayer have the *)
(* same name only if now is exactly the instant of the prayer of that name. *)
C17_NextAndPreviousDiffer ==
  HeldValid =>
    LET today == TodayInstants
        next == nextPrayer
        previous == previousPrayer
    IN next.name = previous.name =>
         \E i \in PrayerIndexes :
           prayerOrder[i] = next.name /\ today[i] = currentTime

(* C17 witness: a tick one millisecond after a prayer's instant, with      *)
(* different names for the two references.                                 *)
C17_Witness ==
  /\ lastOp = "tick"
  /\ HeldValid
  /\ Sub(currentTime, previousPrayer.time) = Num(1)
  /\ nextPrayer.name # previousPrayer.name

PrayerIndex(name) == CHOOSE i \in PrayerIndexes : prayerOrder[i] = name

(* C18: over a tick under a fixed valid schedule the reference nextPrayer  *)
(* returns does not move backward: it is a prayer of the same day at the   *)
(* same or a later place in prayerOrder, or a prayer of a later day; when  *)
(* no prayer of today is after the new now it is Fajr of the next day.     *)
C18_FindNextMonotone ==
  [][(IsTick /\ HeldValid /\ prayerData' = prayerData) =>
       LET before == nextPrayer
           after == nextPrayerAt(prayerData', currentTime')
           today == [i \in PrayerIndexes |->
                       prayerTimeToDate(prayerData[prayerOrder[i]], currentTime')]
       IN /\ \/ before.time.d < after.time.d
             \/ /\ before.time.d = after.time.d
                /\ PrayerIndex(before.name) <= PrayerIndex(after.name)
          /\ (\A i \in PrayerIndexes : ~Gt(today[i], currentTime')) =>
               /\ after.name = "Fajr"
               /\ after.time.d = currentTime'.d + 1]_vars

(* The value of a number below 2^31 *)
Val(n) == n.d * MsPerDay + n.ms

(* dur is what the claim says of the difference diff: no value when diff   *)
(* is negative; else totalMs = diff, minutes and seconds in 0..59, and     *)
(* hours * 3,600,000 + minutes * 60,000 + seconds * 1,000 <= diff < that   *)
(* sum + 1,000 (the whole days of diff are taken from both sides).         *)
Decomposes(dur, diff) ==
  IF Lt(diff, Num(0)) THEN dur = NULL
  ELSE /\ dur # NULL
       /\ dur.totalMs = diff
       /\ LET hours == Val(dur.hours) - 24 * diff.d
              minutes == Val(dur.minutes)
              seconds == Val(dur.seconds)
              sum == hours * 3600000 + minutes * 60000 + seconds * 1000
          IN /\ hours \in 0..23 /\ minutes \in 0..59 /\ seconds \in 0..59
             /\ sum <= diff.ms /\ diff.ms < sum + 1000

(* C19: the durations to and from today's prayer instants and the two      *)
(* references decompose their difference into whole hours, minutes and     *)
(* seconds, and are no value when the difference is negative.              *)
C19_DurationDecomposition ==
  prayerData # NULL =>
    \A target \in Targets :
      /\ Decomposes(remainingUntil(target, currentTime), Sub(target, currentTime))
      /\ Decomposes(elapsedSince(target, currentTime), Sub(currentTime, target))

(* C19 witness: a tick at which the remaining time has hours, minutes,     *)
(* seconds and a part of a second.                                         *)
C19_Witness ==
  /\ lastOp = "tick"
  /\ LET remaining == timeRemaining
     IN /\ remaining # NULL
        /\ Val(remaining.hours) > 0 /\ Val(remaining.minutes) > 0
        /\ Val(remaining.seconds) > 0 /\ remaining.totalMs.ms % 1000 # 0

(* A step of fetchPrayerTimes: its start (from the mount chain or a        *)
(* button), which fails at once without an API URL, or its settling        *)
FetchStarts == lastOp' \in {"enableResolved", "refresh"} /\ fetchPc = "idle"
FetchFails ==
  \/ lastOp' = "fetchFailed" /\ fetchPc = "inflight"
  \/ FetchStarts /\ ~hasApiUrl
FetchSucceeds == lastOp' = "fetchSettled" /\ fetchPc = "inflight"

(* C20: no step of a fetch that fails changes the held schedule, the       *)
(* last-fired key or the pin; the failure leaves a non-empty error message *)
(* and loading false; a fetch that succeeds ends with an empty error       *)
(* message and loading false.                                              *)
C20_FetchOutcome ==
  [][/\ (FetchStarts \/ FetchFails) =>
          /\ prayerData' = prayerData
          /\ notificationShown' = notificationShown
          /\ isManualToggle' = isManualToggle
          /\ showNextPrayer' = showNextPrayer
     /\ FetchFails => (error' # "" /\ loading' = FALSE /\ fetchPc' = "idle")
     /\ FetchSucceeds => (error' = "" /\ loading' = FALSE /\ fetchPc' = "idle")]_vars

(* C20 witness: a refresh has failed with a schedule, a last-fired key and *)
(* a pin held.                                                             *)
C20_Witness ==
  /\ lastOp = "fetchFailed"
  /\ prayerData # NULL
  /\ notificationShown # <<>>
  /\ isManualToggle
  /\ error # ""
  /\ ~loading

(* The mount callback has called fetchPrayerTimes *)
FetchAttempted == mountPc \in {"fetch", "permission", "done"}

(* C21: after mount, unless the component is unmounted first, however the  *)
(* awaited steps settle, the initial fetch is eventually attempted,        *)
(* loading eventually becomes false and the interval is eventually         *)
(* started; at most one interval is ever active.                           *)
C21_MountCompletes ==
  /\ <>(unmounted \/ FetchAttempted)
  /\ <>(unmounted \/ ~loading)
  /\ <>(unmounted \/ timers # {})
  /\ [](Cardinality(timers) <= 1)

====
